---------------------------- MODULE Spec2Model ----------------------------
(***************************************************************************)
(* Descent-time core of the brachistochrone scenes:                        *)
(*   straight_line, parabolic_path, cycloid_path, descent_time             *)
(*       (src/py/brachistochrone_full_derivation.py)                       *)
(*   parabola_func, cycloid_func                                           *)
(*       (src/py/brachistochrone_scene.py, BrachistochroneProblem)         *)
(* and the scenes that compare the curves: race_scene and the quick demo   *)
(*       (src/py/brachistochrone_full_derivation.py)                       *)
(*                                                                         *)
(* Spec         one call of descent_time, or one curve drawn               *)
(* SceneSpec    race_scene and BrachistochroneQuickDemo                    *)
(* RepeatSpec   calls of descent_time one after another                    *)
(* ParallelSpec the calls of a comparison side by side                     *)
(* ConvergenceSpec  descent_time with 50, 100 and 200 steps                *)
(*                                                                         *)
(* Floating-point numbers are modelled as fixed-point numbers with three   *)
(* decimals (Scale units per 1.0) extended with the IEEE-754 special       *)
(* values NaN, +Infinity and -Infinity.  Every arithmetic operation rounds *)
(* its result to the nearest representable value, as the hardware does,    *)
(* and follows the IEEE rules for the special values (numpy semantics:     *)
(* x/0 is +-inf or nan, sqrt of a negative number is nan, every ordered    *)
(* comparison with nan is false).                                          *)
(***************************************************************************)
EXTENDS Integers, Sequences, FiniteSets, TLC

\* fixed-point units per 1.0
Scale == 10 * 10 * 10

----------------------------------------------------------------------------
(* Floating-point values *)

F(n)   == [cls |-> "fin", val |-> n]
NaN    == [cls |-> "nan", val |-> 0]
PosInf == [cls |-> "inf", val |-> 1]
NegInf == [cls |-> "inf", val |-> -1]

\* a number given in whole units, e.g. Num(2) is 2.0
Num(k) == F(k * Scale)

IsFin(a) == a.cls = "fin"
IsNaN(a) == a.cls = "nan"
IsInf(a) == a.cls = "inf"

Abs(n) == IF n < 0 THEN -n ELSE n
Sgn(n) == IF n < 0 THEN -1 ELSE IF n > 0 THEN 1 ELSE 0

\* a/b rounded to the nearest integer, ties away from zero (b # 0)
RoundDiv(a, b) ==
    Sgn(a) * Sgn(b) * ((Abs(a) + Abs(b) \div 2) \div Abs(b))

RECURSIVE ISqrt(_)
\* floor of the square root of n >= 0
ISqrt(n) ==
    IF n < 2 THEN n
    ELSE LET s == 2 * ISqrt(n \div 4)
             l == s + 1
         IN  IF l * l > n THEN s ELSE l

\* sign of a value that is not NaN: -1, 0 or 1
SignOf(a) == IF IsInf(a) THEN a.val ELSE Sgn(a.val)
InfOf(s)  == IF s < 0 THEN NegInf ELSE PosInf

FNeg(a) == IF IsNaN(a) THEN NaN ELSE [cls |-> a.cls, val |-> -a.val]

FAdd(a, b) ==
    IF IsNaN(a) \/ IsNaN(b) THEN NaN
    ELSE IF IsInf(a) /\ IsInf(b) THEN (IF a.val = b.val THEN a ELSE NaN)
    ELSE IF IsInf(a) THEN a
    ELSE IF IsInf(b) THEN b
    ELSE F(a.val + b.val)

FSub(a, b) == FAdd(a, FNeg(b))

FMul(a, b) ==
    IF IsNaN(a) \/ IsNaN(b) THEN NaN
    ELSE IF IsInf(a) \/ IsInf(b)
         THEN (IF SignOf(a) = 0 \/ SignOf(b) = 0 THEN NaN
               ELSE InfOf(SignOf(a) * SignOf(b)))
    ELSE F(RoundDiv(a.val * b.val, Scale))

\* numpy division: a finite number over zero is +-inf, 0/0 is nan
FDiv(a, b) ==
    IF IsNaN(a) \/ IsNaN(b) THEN NaN
    ELSE IF IsInf(a) THEN (IF IsInf(b) THEN NaN
                           ELSE InfOf(a.val * (IF b.val < 0 THEN -1 ELSE 1)))
    ELSE IF IsInf(b) THEN F(0)
    ELSE IF b.val = 0 THEN (IF a.val = 0 THEN NaN ELSE InfOf(a.val))
    ELSE F(RoundDiv(a.val * Scale, b.val))

\* np.sqrt: nan for a negative argument
FSqrt(a) ==
    IF IsNaN(a) THEN NaN
    ELSE IF IsInf(a) THEN (IF a.val > 0 THEN PosInf ELSE NaN)
    ELSE IF a.val < 0 THEN NaN
    ELSE F(ISqrt(a.val * Scale))

FAbs(a) == IF IsNaN(a) THEN NaN ELSE [cls |-> a.cls, val |-> Abs(a.val)]

\* a > b and a == b of Python floats: false as soon as one side is nan
FGt(a, b) ==
    IF IsNaN(a) \/ IsNaN(b) THEN FALSE
    ELSE IF IsInf(a) THEN a.val > 0 /\ a # b
    ELSE IF IsInf(b) THEN b.val < 0
    ELSE a.val > b.val

FEq(a, b) == ~IsNaN(a) /\ ~IsNaN(b) /\ a = b


\* one term of the Taylor series after another, k = 1, 2, ...: the term of
\* index k is the previous one times -x^2 / ((n+1)(n+2)), n the previous power
RECURSIVE Series(_, _, _, _)
Series(term, x2, n, left) ==
    IF left = 0 \/ term = 0 THEN 0
    ELSE LET next == -RoundDiv(term * x2, Scale * (n + 1) * (n + 2))
         IN  term + Series(next, x2, n + 2, left - 1)

SeriesTerms == 9

\* np.sin and np.cos, to the precision of the number model
FSin(a) ==
    IF ~IsFin(a) THEN NaN
    ELSE F(Series(a.val, RoundDiv(a.val * a.val, Scale), 1, SeriesTerms))

FCos(a) ==
    IF ~IsFin(a) THEN NaN
    ELSE F(Series(Scale, RoundDiv(a.val * a.val, Scale), 0, SeriesTerms))

----------------------------------------------------------------------------
(* Curve functions *)

Pt(x, y) == [x |-> x, y |-> y]

\* the start point A and the end point B a curve was configured with
PointA(c) == Pt(c.x0, c.y0)
PointB(c) == Pt(c.x1, c.y1)

straight_line(t, c) ==
    LET x == FAdd(c.x0, FMul(t, FSub(c.x1, c.x0)))
        y == FAdd(c.y0, FMul(t, FSub(c.y1, c.y0)))
    IN  Pt(x, y)

\* a parabola whose sag term lacks the factor (1 - t)
SagPathOneSided(t, c, depth) ==
    LET x   == FAdd(c.x0, FMul(t, FSub(c.x1, c.x0)))
        sag == FMul(FMul(depth, t), FAbs(FSub(c.y1, c.y0)))
        y   == FSub(FAdd(c.y0, FMul(t, FSub(c.y1, c.y0))), sag)
    IN  Pt(x, y)

\* a parabola whose sag term is added, so that it bulges above the chord
SagPathAbove(t, c, depth) ==
    LET x   == FAdd(c.x0, FMul(t, FSub(c.x1, c.x0)))
        sag == FMul(FMul(FMul(depth, t), FSub(Num(1), t)),
                    FAbs(FSub(c.y1, c.y0)))
        y   == FAdd(FAdd(c.y0, FMul(t, FSub(c.y1, c.y0))), sag)
    IN  Pt(x, y)

\* y0 + t*(y1 - y0) - depth*t*(1 - t)*abs(y1 - y0), evaluated left to right
SagPath(t, c, depth) ==
    LET x   == FAdd(c.x0, FMul(t, FSub(c.x1, c.x0)))
        sag == FMul(FMul(FMul(depth, t), FSub(Num(1), t)),
                    FAbs(FSub(c.y1, c.y0)))
        y   == FSub(FAdd(c.y0, FMul(t, FSub(c.y1, c.y0))), sag)
    IN  Pt(x, y)

parabolic_path(t, c) == SagPath(t, c, c.depth)

\* the depth literal of the scene's parabola
SceneDepth == 4

parabola_func(t, c) == SagPath(t, c, Num(SceneDepth))

\* theta_max = 2.5
ThetaMaxMilli == 2500
theta_max == F(ThetaMaxMilli)

\* a cycloid whose height is not rescaled onto the end height
CycloidNotRescaled(theta, c) ==
    IF FEq(theta, F(0)) THEN Pt(c.x0, c.y0)
    ELSE
    LET r == FDiv(FSub(c.x1, c.x0), FSub(theta_max, FSin(theta_max)))
        x == FAdd(c.x0, FMul(r, FSub(theta, FSin(theta))))
        y == FSub(c.y0, FMul(r, FSub(Num(1), FCos(theta))))
    IN  Pt(x, y)

cycloid_path(theta, c) ==
    IF FEq(theta, F(0)) THEN Pt(c.x0, c.y0)
    ELSE
    LET r       == FDiv(FSub(c.x1, c.x0), FSub(theta_max, FSin(theta_max)))
        x       == FAdd(c.x0, FMul(r, FSub(theta, FSin(theta))))
        y_raw   == FSub(c.y0, FMul(r, FSub(Num(1), FCos(theta))))
        y_end   == FSub(c.y0, FMul(r, FSub(Num(1), FCos(theta_max))))
        y_scale == FDiv(FSub(c.y1, c.y0), FSub(y_end, c.y0))
        y       == FAdd(c.y0, FMul(FSub(y_raw, c.y0), y_scale))
    IN  Pt(x, y)

\* theta_max = 2.5, as written in the scene's cycloid_func
SceneThetaMaxMilli == 2500
scene_theta_max == F(SceneThetaMaxMilli)

cycloid_func(theta, c) ==
    IF FEq(theta, F(0)) THEN Pt(c.x0, c.y0)
    ELSE
    LET r             == FDiv(FSub(c.x1, c.x0),
                              FSub(scene_theta_max, FSin(scene_theta_max)))
        x             == FAdd(c.x0, FMul(r, FSub(theta, FSin(theta))))
        y1st          == FSub(c.y0, FMul(r, FSub(Num(1), FCos(theta))))
        y_cycloid_end == FSub(c.y0, FMul(r, FSub(Num(1), FCos(scene_theta_max))))
        y_scale       == FDiv(FSub(c.y1, c.y0), FSub(y_cycloid_end, c.y0))
        y             == FAdd(c.y0, FMul(FSub(y1st, c.y0), y_scale))
    IN  Pt(x, y)

\* curve_func(t): the call of the curve function a curve value stands for
CurveAt(c, t) ==
    CASE c.kind = "straight_line"  -> straight_line(t, c)
      [] c.kind = "parabolic_path" -> parabolic_path(t, c)
      [] c.kind = "cycloid_path"   -> cycloid_path(t, c)
      [] c.kind = "parabola_func"  -> parabola_func(t, c)
      [] c.kind = "cycloid_func"   -> cycloid_func(t, c)

----------------------------------------------------------------------------
(* Inputs *)

\* largest step count n_points tried; the smallest is -1
MaxN == 3

\* a curve is drawn from its range in this many equal parts
PlotParts == 2

XCoords == {Num(-4), Num(0), Num(4)}
YCoords == {Num(-2), Num(0), Num(2)}
Depths  == {Num(2), Num(4)}

\* gravity 9.8 (the default), no gravity, gravity pointing up
GravityMilli == 9800
Gravities == {F(GravityMilli), F(0), F(-GravityMilli)}


DerivationKinds == {"straight_line", "parabolic_path", "cycloid_path"}
SceneKinds      == {"parabola_func", "cycloid_func"}

\* the curve functions with their endpoint arguments bound; the end height
\* may be +inf, which makes the curve return non-finite coordinates
Curves ==
    { [kind |-> k, x0 |-> ax, y0 |-> ay, x1 |-> bx, y1 |-> by, depth |-> d] :
        k \in DerivationKinds \cup SceneKinds,
        ax \in XCoords, ay \in YCoords, bx \in XCoords,
        by \in YCoords \cup {PosInf}, d \in Depths }

\* a range for the cycloid that ends past theta_max, at 3
RangePastThetaMax(c) ==
    IF c.kind \in {"cycloid_path", "cycloid_func"}
    THEN <<F(0), Num(3)>> ELSE <<F(0), Num(1)>>

\* t_range=[0, 2.5], as written where the fitted cycloid is drawn or
\* integrated along
RangeEndMilli == 2500

\* the range a curve is drawn over
t_range(c) ==
    IF c.kind \in {"cycloid_path", "cycloid_func"}
    THEN <<F(0), F(RangeEndMilli)>> ELSE <<F(0), Num(1)>>

\* the ranges descent_time is called with: the whole range of the curve, as
\* at the call sites, and its first half
ParamRanges(c) ==
    LET whole == t_range(c)
    IN  {whole, <<whole[1], FDiv(FAdd(whole[1], whole[2]), Num(2))>>}

IsFinPt(p) == IsFin(p.x) /\ IsFin(p.y)

----------------------------------------------------------------------------
(* State *)

VARIABLES
    curve,       \* curve_func and its endpoints
    pc,          \* position: in descent_time "start", "loop", "done", "raised";
                 \* "plotted"; in the scenes "timed", "raced", "shown", "demo_..."
    plot,        \* << >>, or the sample taken by ParametricFunction
    t_start, t_end, n_points, g,    \* the arguments of descent_time
    dt, i, total_time,              \* its locals
    steps,       \* the locals of every iteration executed so far, in order
    ret,         \* << >>, or the value returned
    err,         \* "", or the exception raised
    returned,    \* the values descent_time returned to the scene, by curve
    time_s, time_p, time_c,    \* the locals of race_scene and of the demo
    run_time,    \* << >>, or the run_time of every ball of the race
    results,     \* << >>, or the lines of text shown after the race
    winner,      \* "", or the curve announced as the fastest
    log,         \* the calls of descent_time that ended before this one
    frames       \* the calls of descent_time in progress side by side

\* what the scenes keep outside of a call of descent_time
sceneVars ==
    <<returned, time_s, time_p, time_c, run_time, results, winner>>

\* what the callers of descent_time keep track of
callerVars == <<log, frames>>

vars == <<curve, pc, plot, t_start, t_end, n_points, g, dt, i, total_time,
          steps, ret, err, sceneVars, callerVars>>

\* the floor velocity 0.001
FloorMilli == 1
FLOOR == F(FloorMilli)

Init ==
    /\ curve \in { c \in Curves :
                     c.kind = "parabolic_path" \/ c.depth = Num(2) }
    /\ pc = "start"
    /\ plot = << >>
    /\ t_start = F(0) /\ t_end = F(0) /\ n_points = 0 /\ g = F(0)
    /\ dt = F(0) /\ i = 0 /\ total_time = F(0)
    /\ steps = << >>
    /\ ret = << >>
    /\ err = ""
    /\ returned = << >>
    /\ time_s = F(0) /\ time_p = F(0) /\ time_c = F(0)
    /\ run_time = << >>
    /\ results = << >>
    /\ winner = ""
    /\ log = << >>
    /\ frames = << >>

\* ParametricFunction(curve_func, t_range=[a, b]): the curve function is
\* evaluated at the ends of the range and at the points between them
Plot(k) ==
    /\ pc = "start"
    /\ LET a == t_range(curve)[1]
           b == t_range(curve)[2]
           t == FAdd(a, F(RoundDiv(k * FSub(b, a).val, PlotParts)))
       IN  plot' = <<[t |-> t, p |-> CurveAt(curve, t)]>>
    /\ pc' = "plotted"
    /\ UNCHANGED <<curve, t_start, t_end, n_points, g, dt, i, total_time,
                   steps, ret, err, sceneVars, callerVars>>

\* a descent_time whose total is not set to 0 when it is entered
EnterKeepingTotal(ts, te, n, gg) ==
    /\ pc = "start"
    /\ curve.kind \in DerivationKinds
    /\ t_start' = ts /\ t_end' = te /\ n_points' = n /\ g' = gg
    /\ IF n = 0
       THEN /\ err' = "ZeroDivisionError"
            /\ pc' = "raised"
            /\ UNCHANGED <<dt, i>>
       ELSE /\ dt' = FDiv(FSub(te, ts), Num(n))
            /\ i' = 0
            /\ pc' = "loop"
            /\ err' = ""
    /\ UNCHANGED <<curve, plot, total_time, steps, ret, sceneVars, callerVars>>

\* descent_time(curve_func, t_start, t_end, n_points, g) up to the loop:
\* dt = (t_end - t_start) / n_points raises ZeroDivisionError for n_points = 0
Enter(ts, te, n, gg) ==
    /\ pc = "start"
    /\ curve.kind \in DerivationKinds
    /\ t_start' = ts /\ t_end' = te /\ n_points' = n /\ g' = gg
    /\ IF n = 0
       THEN /\ err' = "ZeroDivisionError"
            /\ pc' = "raised"
            /\ UNCHANGED <<dt, total_time, i>>
       ELSE /\ dt' = FDiv(FSub(te, ts), Num(n))
            /\ total_time' = F(0)
            /\ i' = 0
            /\ pc' = "loop"
            /\ err' = ""
    /\ UNCHANGED <<curve, plot, steps, ret, sceneVars, callerVars>>

\* the velocity without the floor for zero height
VelocityNoFloor(y_avg, gg) == FSqrt(FMul(FMul(Num(2), gg), FAbs(y_avg)))

\* a velocity that grows with the height itself, not with its square root
VelocityWithoutRoot(y_avg, gg) ==
    IF ~FEq(y_avg, F(0))
    THEN FMul(FMul(Num(2), gg), FAbs(y_avg))
    ELSE FLOOR

\* v = np.sqrt(2 * g * abs(y_avg)) if y_avg != 0 else 0.001
Velocity(y_avg, gg) ==
    IF ~FEq(y_avg, F(0))
    THEN FSqrt(FMul(FMul(Num(2), gg), FAbs(y_avg)))
    ELSE FLOOR

\* the height of the start of the segment instead of the average
StartHeight(p1, p2) == p1.y

\* y_avg = (p1[1] + p2[1]) / 2
AvgHeight(p1, p2) == FDiv(FAdd(p1.y, p2.y), Num(2))

\* a length that keeps the sign of the two differences
ArcLengthSigned(p1, p2) == FAdd(FSub(p2.x, p1.x), FSub(p2.y, p1.y))

\* a length whose two differences are not squared
ArcLengthWithoutSquares(p1, p2) ==
    LET dx == FSub(p2.x, p1.x)
        dy == FSub(p2.y, p1.y)
    IN  FSqrt(FAdd(FAbs(dx), FAbs(dy)))

\* ds = np.sqrt(dx**2 + dy**2)
ArcLength(p1, p2) ==
    LET dx == FSub(p2.x, p1.x)
        dy == FSub(p2.y, p1.y)
    IN  FSqrt(FAdd(FMul(dx, dx), FMul(dy, dy)))

\* if v > 0: the segment is added to the total
Counts(v) == FGt(v, F(0))

\* the locals of iteration k of the loop of descent_time
Segment(c, ts, d, gg, k) ==
    LET t1    == FAdd(ts, FMul(Num(k), d))
        t2    == FAdd(ts, FMul(Num(k + 1), d))
        p1    == CurveAt(c, t1)
        p2    == CurveAt(c, t2)
        ds    == ArcLength(p1, p2)
        y_avg == AvgHeight(p1, p2)
        v     == Velocity(y_avg, gg)
    IN  [i |-> k, t1 |-> t1, t2 |-> t2, p1 |-> p1, p2 |-> p2, ds |-> ds,
         y_avg |-> y_avg, v |-> v, added |-> Counts(v)]

\* a loop that moves the start point of the curve down as it goes
IterateMovingCurve ==
    /\ pc = "loop"
    /\ i < n_points
    /\ LET s == Segment(curve, t_start, dt, g, i)
       IN  /\ total_time' = IF s.added THEN FAdd(total_time, FDiv(s.ds, s.v))
                            ELSE total_time
           /\ steps' = Append(steps, s)
           /\ curve' = [curve EXCEPT !.y0 = s.p2.y]
    /\ i' = i + 1
    /\ UNCHANGED <<pc, plot, t_start, t_end, n_points, g, dt, ret, err,
                   sceneVars, callerVars>>

\* a loop that takes the segments from the last one to the first one
IterateDescending ==
    /\ pc = "loop"
    /\ i < n_points
    /\ LET s == Segment(curve, t_start, dt, g, n_points - 1 - i)
       IN  /\ total_time' = IF s.added THEN FAdd(total_time, FDiv(s.ds, s.v))
                            ELSE total_time
           /\ steps' = Append(steps, s)
    /\ i' = i + 1
    /\ UNCHANGED <<curve, pc, plot, t_start, t_end, n_points, g, dt, ret, err,
                   sceneVars, callerVars>>

\* one iteration of: for i in range(n_points)
Iterate ==
    /\ pc = "loop"
    /\ i < n_points
    /\ LET s == Segment(curve, t_start, dt, g, i)
       IN  /\ total_time' = IF s.added THEN FAdd(total_time, FDiv(s.ds, s.v))
                            ELSE total_time
           /\ steps' = Append(steps, s)
    /\ i' = i + 1
    /\ UNCHANGED <<curve, pc, plot, t_start, t_end, n_points, g, dt, ret, err,
                   sceneVars, callerVars>>

\* a return that leaves the loop before its last iteration
ReturnBeforeLast ==
    /\ pc = "loop"
    /\ ~(i + 1 < n_points)
    /\ ret' = <<total_time>>
    /\ pc' = "done"
    /\ UNCHANGED <<curve, plot, t_start, t_end, n_points, g, dt, i,
                   total_time, steps, err, sceneVars, callerVars>>

\* return total_time, once range(n_points) is exhausted
Return ==
    /\ pc = "loop"
    /\ ~(i < n_points)
    /\ ret' = <<total_time>>
    /\ pc' = "done"
    /\ UNCHANGED <<curve, plot, t_start, t_end, n_points, g, dt, i,
                   total_time, steps, err, sceneVars, callerVars>>

\* total_time after one more iteration of the loop of descent_time, s the
\* locals of that iteration
Added(total, s) ==
    IF s.added THEN FAdd(total, FDiv(s.ds, s.v)) ELSE total

RECURSIVE Run(_, _, _, _, _, _, _)
\* total_time after the iterations from .. to-1 of the loop of descent_time,
\* entered with total_time = total
Run(c, ts, d, gg, from, to, total) ==
    IF from >= to THEN total
    ELSE Run(c, ts, d, gg, from + 1, to,
             Added(total, Segment(c, ts, d, gg, from)))

\* the longest run of iterations evaluated in one piece
RunLength == 10

\* where the run of iterations that starts at from ends
RunEnd(from, to) == IF from + RunLength < to THEN from + RunLength ELSE to

RECURSIVE Accumulate(_, _, _, _, _, _, _)
\* the loop resumed at from with total_time = part (nothing can be added to
\* a total that is nan already)
Resume(c, ts, d, gg, from, to, part) ==
    IF IsNaN(part) THEN NaN ELSE Accumulate(c, ts, d, gg, from, to, part)

\* total_time after the iterations from .. to-1, one run of iterations after
\* the other
Accumulate(c, ts, d, gg, from, to, total) ==
    IF from >= to THEN total
    ELSE Resume(c, ts, d, gg, RunEnd(from, to), to,
                Run(c, ts, d, gg, from, RunEnd(from, to), total))

\* a sum whose segments start at parameter 0, whatever the start of the range
DescentTimeFromZero(c, ts, te, n, gg) ==
    Accumulate(c, F(0), FDiv(FSub(te, ts), Num(n)), gg, 0, n, F(0))

\* the value a whole call descent_time(curve_func, t_start, t_end, n_points,
\* g) returns, for n_points other than 0
descent_time(c, ts, te, n, gg) ==
    Accumulate(c, ts, FDiv(FSub(te, ts), Num(n)), gg, 0, n, F(0))

\* the default arguments n_points=100 and g=9.8 of descent_time
DefaultSteps == 100
DefaultGravity == F(GravityMilli)

\* the default argument depth=2.0 of parabolic_path
DefaultDepth == Num(2)

\* the factor 1.5 the scenes stretch the descent times by
StretchMilli == 1500
Stretch == F(StretchMilli)

\* curve_func of the given name between the endpoints of the scene, with the
\* default arguments of the curve functions
SceneCurve(name) == [curve EXCEPT !.kind = name, !.depth = DefaultDepth]

\* descent_time(curve_func, 0, b) as the scenes call it
SceneTime(name) ==
    LET c == SceneCurve(name)
    IN  descent_time(c, t_range(c)[1], t_range(c)[2], DefaultSteps,
                     DefaultGravity)

\* f"{x:.3f}": the number rounded to three decimals
Format3(x) ==
    IF IsFin(x)
    THEN F(RoundDiv(RoundDiv(x.val * 1000, Scale) * Scale, 1000))
    ELSE x

\* race_scene, "Calculate times": the scene is built between the endpoints
\* of its first curve, the straight line
\*   time_s = descent_time(straight_line, 0, 1) * 1.5
\*   time_p = descent_time(parabolic_path, 0, 1) * 1.5
\*   time_c = descent_time(cycloid_path, 0, 2.5) * 1.5
CalculateTimes ==
    /\ pc = "start"
    /\ curve.kind = "straight_line"
    /\ returned' = [name \in DerivationKinds |-> SceneTime(name)]
    /\ time_s' = FMul(returned'.straight_line, Stretch)
    /\ time_p' = FMul(returned'.parabolic_path, Stretch)
    /\ time_c' = FMul(returned'.cycloid_path, Stretch)
    /\ pc' = "timed"
    /\ UNCHANGED <<curve, plot, t_start, t_end, n_points, g, dt, i,
                   total_time, steps, ret, err, run_time, results, winner,
                   callerVars>>

\* race_scene, "Race!": MoveAlongPath(ball, path, run_time=time_x) for the
\* three balls
Race ==
    /\ pc = "timed"
    /\ run_time' = <<time_s, time_p, time_c>>
    /\ pc' = "raced"
    /\ UNCHANGED <<curve, plot, t_start, t_end, n_points, g, dt, i,
                   total_time, steps, ret, err, returned, time_s, time_p,
                   time_c, results, winner, callerVars>>

\* results that show the stretched times, as the race was played
ShowResultsStretched ==
    /\ pc = "raced"
    /\ results' =
         << [name |-> "Straight", shown |-> Format3(time_s), fastest |-> FALSE],
            [name |-> "Parabola", shown |-> Format3(time_p), fastest |-> FALSE],
            [name |-> "Cycloid", shown |-> Format3(time_c), fastest |-> TRUE] >>
    /\ winner' = "Cycloid"
    /\ pc' = "shown"
    /\ UNCHANGED <<curve, plot, t_start, t_end, n_points, g, dt, i,
                   total_time, steps, ret, err, returned, time_s, time_p,
                   time_c, run_time, callerVars>>

\* race_scene, "Show results": the three lines of text, in the order of the
\* source, the third one with the mark "FASTEST!"
ShowResults ==
    /\ pc = "raced"
    /\ results' =
         << [name |-> "Straight", shown |-> Format3(FDiv(time_s, Stretch)),
             fastest |-> FALSE],
            [name |-> "Parabola", shown |-> Format3(FDiv(time_p, Stretch)),
             fastest |-> FALSE],
            [name |-> "Cycloid", shown |-> Format3(FDiv(time_c, Stretch)),
             fastest |-> TRUE] >>
    /\ winner' = "Cycloid"
    /\ pc' = "shown"
    /\ UNCHANGED <<curve, plot, t_start, t_end, n_points, g, dt, i,
                   total_time, steps, ret, err, returned, time_s, time_p,
                   time_c, run_time, callerVars>>

\* BrachistochroneQuickDemo, the quick race of the line and the cycloid
\*   time_s = descent_time(straight_line, 0, 1) * 1.5
\*   time_c = descent_time(cycloid_path, 0, 2.5) * 1.5
DemoTimes ==
    /\ pc = "start"
    /\ curve.kind = "straight_line"
    /\ returned' =
         [name \in {"straight_line", "cycloid_path"} |-> SceneTime(name)]
    /\ time_s' = FMul(returned'.straight_line, Stretch)
    /\ time_c' = FMul(returned'.cycloid_path, Stretch)
    /\ pc' = "demo_timed"
    /\ UNCHANGED <<curve, plot, t_start, t_end, n_points, g, dt, i,
                   total_time, steps, ret, err, time_p, run_time, results,
                   winner, callerVars>>

\* MoveAlongPath(ball, path, run_time=time_x) for the two balls
DemoRace ==
    /\ pc = "demo_timed"
    /\ run_time' = <<time_s, time_c>>
    /\ pc' = "demo_raced"
    /\ UNCHANGED <<curve, plot, t_start, t_end, n_points, g, dt, i,
                   total_time, steps, ret, err, returned, time_s, time_p,
                   time_c, results, winner, callerVars>>

\* winner = Text("Cycloid wins!")
DemoWinner ==
    /\ pc = "demo_raced"
    /\ winner' = "Cycloid"
    /\ pc' = "demo_won"
    /\ UNCHANGED <<curve, plot, t_start, t_end, n_points, g, dt, i,
                   total_time, steps, ret, err, returned, time_s, time_p,
                   time_c, run_time, results, callerVars>>

Next ==
    \/ \E k \in 0..PlotParts : Plot(k)
    \/ \E r \in ParamRanges(curve), n \in -1..MaxN, gg \in Gravities :
           Enter(r[1], r[2], n, gg)
    \/ Iterate
    \/ Return

Spec == Init /\ [][Next]_vars

\* the most calls of descent_time made one after another
MaxCalls == 3

\* the caller takes the result of a call that ended, and is about to call
\* descent_time again; what the ended call left in its locals is still there
CallAgain ==
    /\ pc \in {"done", "raised"}
    /\ Len(log) < MaxCalls - 1
    /\ log' = Append(log, [t_start |-> t_start, t_end |-> t_end,
                           n_points |-> n_points, g |-> g,
                           ret |-> ret, err |-> err])
    /\ pc' = "start"
    /\ steps' = << >>
    /\ ret' = << >>
    /\ err' = ""
    /\ UNCHANGED <<curve, plot, t_start, t_end, n_points, g, dt, i,
                   total_time, sceneVars, frames>>

\* calls of descent_time one after another, on a curve of the default
\* scenario, with the default gravity
RepeatInit ==
    /\ Init
    /\ curve.kind \in DerivationKinds
    /\ PointA(curve) = Pt(Num(-4), Num(2))
    /\ PointB(curve) = Pt(Num(4), Num(-2))

RepeatNext ==
    \/ \E r \in ParamRanges(curve), n \in 0..MaxN :
           Enter(r[1], r[2], n, DefaultGravity)
    \/ Iterate
    \/ Return
    \/ CallAgain

RepeatSpec == RepeatInit /\ [][RepeatNext]_vars

\* the three calls of "Calculate times" entered side by side, each with its
\* own arguments and locals:
\*   dt = (t_end - t_start) / n_points; total_time = 0
StartCalls(n) ==
    /\ pc = "start"
    /\ frames' =
         [name \in DerivationKinds |->
            LET c == SceneCurve(name)
            IN  [t_start |-> t_range(c)[1], t_end |-> t_range(c)[2],
                 n_points |-> n, g |-> DefaultGravity,
                 dt |-> FDiv(FSub(t_range(c)[2], t_range(c)[1]), Num(n)),
                 i |-> 0, total_time |-> F(0), pc |-> "loop", ret |-> << >>]]
    /\ pc' = "calls"
    /\ UNCHANGED <<curve, plot, t_start, t_end, n_points, g, dt, i,
                   total_time, steps, ret, err, sceneVars, log>>

\* an iteration that adds to the total of the first call, whichever call
\* it belongs to
IterateInShared(name) ==
    /\ pc = "calls"
    /\ frames[name].pc = "loop"
    /\ frames[name].i < frames[name].n_points
    /\ LET f == frames[name]
           s == Segment(SceneCurve(name), f.t_start, f.dt, f.g, f.i)
           first == "straight_line"
       IN  frames' =
             [frames EXCEPT
                ![first].total_time = Added(frames[first].total_time, s),
                ![name].i = f.i + 1]
    /\ UNCHANGED <<curve, pc, plot, t_start, t_end, n_points, g, dt, i,
                   total_time, steps, ret, err, sceneVars, log>>

\* one iteration of the loop of the call for the curve of that name
IterateIn(name) ==
    /\ pc = "calls"
    /\ frames[name].pc = "loop"
    /\ frames[name].i < frames[name].n_points
    /\ LET f == frames[name]
           s == Segment(SceneCurve(name), f.t_start, f.dt, f.g, f.i)
       IN  frames' =
             [frames EXCEPT
                ![name].total_time = Added(f.total_time, s),
                ![name].i = f.i + 1]
    /\ UNCHANGED <<curve, pc, plot, t_start, t_end, n_points, g, dt, i,
                   total_time, steps, ret, err, sceneVars, log>>

\* return total_time, in the call for the curve of that name
ReturnFrom(name) ==
    /\ pc = "calls"
    /\ frames[name].pc = "loop"
    /\ ~(frames[name].i < frames[name].n_points)
    /\ frames' = [frames EXCEPT ![name].ret = <<frames[name].total_time>>,
                                ![name].pc = "done"]
    /\ UNCHANGED <<curve, pc, plot, t_start, t_end, n_points, g, dt, i,
                   total_time, steps, ret, err, sceneVars, log>>

\* the step counts a descent time is refined with: 50, 100, 200
StepCounts == <<DefaultSteps \div 2, DefaultSteps, 2 * DefaultSteps>>

\* a whole call descent_time(curve_func, 0, b, n_points) over the range of
\* the curve, with the next step count and the default gravity; the caller
\* keeps what it returned
MeasureCall ==
    /\ pc = "start"
    /\ Len(log) < Len(StepCounts)
    /\ LET n == StepCounts[Len(log) + 1]
           r == t_range(curve)
       IN  log' = Append(log, [t_start |-> r[1], t_end |-> r[2],
                               n_points |-> n, g |-> DefaultGravity,
                               ret |-> <<descent_time(curve, r[1], r[2], n,
                                                      DefaultGravity)>>,
                               err |-> ""])
    /\ UNCHANGED <<curve, pc, plot, t_start, t_end, n_points, g, dt, i,
                   total_time, steps, ret, err, sceneVars, frames>>

\* a curve of the derivation between two real points, B to the right of A
\* and at another height
ConvergenceInit ==
    /\ Init
    /\ curve.kind \in DerivationKinds
    /\ IsFinPt(PointA(curve)) /\ IsFinPt(PointB(curve))
    /\ FGt(curve.x1, curve.x0)
    /\ curve.y0 # curve.y1

ConvergenceNext == MeasureCall

ConvergenceSpec == ConvergenceInit /\ [][ConvergenceNext]_vars

\* the scenes that compare the curves: race_scene and the quick demo
SceneNext ==
    \/ CalculateTimes
    \/ Race
    \/ ShowResults
    \/ DemoTimes
    \/ DemoRace
    \/ DemoWinner

\* a scene is built on its first curve, the straight line, between two real
\* points, B to the right of A and at another height
SceneInit ==
    /\ Init
    /\ curve.kind = "straight_line"
    /\ IsFinPt(PointA(curve)) /\ IsFinPt(PointB(curve))
    /\ FGt(curve.x1, curve.x0)
    /\ curve.y0 # curve.y1

SceneSpec == SceneInit /\ [][SceneNext]_vars

\* the descent times of a scene computed side by side, their integration
\* steps interleaved in every possible way
ParallelNext ==
    \/ \E n \in 1..MaxN : StartCalls(n)
    \/ \E name \in DerivationKinds : IterateIn(name)
    \/ \E name \in DerivationKinds : ReturnFrom(name)

ParallelSpec == SceneInit /\ [][ParallelNext]_vars

----------------------------------------------------------------------------
(* Vocabulary of the properties *)

Returned == pc = "done"
Raised   == pc = "raised"
Ended    == Returned \/ Raised

Positive(a)    == FGt(a, F(0))
NonNegative(a) == Positive(a) \/ FEq(a, F(0))

StepIndices == 1..Len(steps)

\* every point the curve function returned to descent_time so far is real
FiniteSamples ==
    \A k \in StepIndices : IsFinPt(steps[k].p1) /\ IsFinPt(steps[k].p2)

FiniteEndpoints == IsFinPt(PointA(curve)) /\ IsFinPt(PointB(curve))

\* The sum the integrator is specified to return, written from its
\* description: n uniform sub-intervals of [t_start, t_end], the Euclidean
\* distance of the two end points of each, the speed from the mean of their
\* two heights.  floored tells whether the speed of a sub-interval of mean
\* height zero is the floor 0.001 or the energy speed like everywhere else.
RefWidth == FDiv(FSub(t_end, t_start), Num(n_points))
RefParam(k) == FAdd(t_start, FMul(Num(k), RefWidth))
RefDistance(P, Q) ==
    FSqrt(FAdd(FMul(FSub(Q.x, P.x), FSub(Q.x, P.x)),
               FMul(FSub(Q.y, P.y), FSub(Q.y, P.y))))
RefMeanHeight(P, Q) == FDiv(FAdd(P.y, Q.y), Num(2))
RefEnergySpeed(h) == FSqrt(FMul(FMul(Num(2), g), FAbs(h)))
RefSpeed(h, floored) ==
    IF floored /\ FEq(h, F(0)) THEN F(Scale \div 1000) ELSE RefEnergySpeed(h)

RefTerm(k, floored) ==
    LET P == CurveAt(curve, RefParam(k))
        Q == CurveAt(curve, RefParam(k + 1))
    IN  FDiv(RefDistance(P, Q), RefSpeed(RefMeanHeight(P, Q), floored))

RECURSIVE RefSum(_, _)
\* the terms of the sub-intervals 0 .. k-1, added in that order
RefSum(k, floored) ==
    IF k = 0 THEN F(0)
    ELSE FAdd(RefSum(k - 1, floored), RefTerm(k - 1, floored))

ValidCall == n_points >= 1 /\ Positive(g)

\* A and B are different points, B to the right of A and at another height
ProperChord == FGt(curve.x1, curve.x0) /\ curve.y0 # curve.y1

----------------------------------------------------------------------------
(* C1 *)

----------------------------------------------------------------------------
(* C2 *)

\* C2: when a sampled segment of a real-valued curve has an average height
\* of exactly zero, no error is raised, that segment is added with the floor
\* velocity 0.001, and the running total and the returned time are finite.
C2_ZeroHeightUsesFloor ==
    \A k \in StepIndices :
        (FiniteSamples /\ FEq(steps[k].y_avg, F(0)))
            => /\ err = "" /\ ~Raised
               /\ steps[k].v = FLOOR
               /\ steps[k].added
               /\ IsFin(total_time)
               /\ (Returned => IsFin(ret[1]))

\* a call of several steps has returned, with one segment of positive length
\* at average height zero and another segment at a different height
C2_Witness ==
    /\ Returned /\ ValidCall /\ n_points >= 2 /\ FiniteSamples
    /\ \E k \in StepIndices :
           FEq(steps[k].y_avg, F(0)) /\ Positive(steps[k].ds)
    /\ \E k \in StepIndices : ~FEq(steps[k].y_avg, F(0))
    /\ Positive(ret[1])

----------------------------------------------------------------------------
(* C3, C4 *)

\* C3: a call of descent_time with a valid step count and gravity <= 0, on a
\* curve between two proper real endpoints, ends by raising
\* InvalidIntegrationParameters; it never returns a number.
C3_NonPositiveGravityRaises ==
    (Ended /\ n_points >= 1 /\ ~Positive(g) /\ FiniteEndpoints /\ ProperChord)
        => (Raised /\ err = "InvalidIntegrationParameters")

\* C4: a call of descent_time with valid gravity and a step count <= 0, on a
\* curve between two proper real endpoints, ends by raising an error; it
\* never returns a number.
C4_NonPositiveStepCountRaises ==
    (Ended /\ n_points <= 0 /\ Positive(g) /\ FiniteEndpoints /\ ProperChord)
        => (Raised /\ err # "")

----------------------------------------------------------------------------
(* C5 *)

\* C5: a call of descent_time with valid parameters in which the curve
\* function returned a non-finite coordinate ends by raising
\* NonFiniteEvaluation: the segment is not skipped and no total is returned.
C5_NonFiniteEvaluationRaises ==
    (Ended /\ ValidCall /\ ~FiniteSamples)
        => (Raised /\ err = "NonFiniteEvaluation")

----------------------------------------------------------------------------
(* C6, C7 *)

\* C6: for the line, the parabola and the cycloid alike, a call of
\* descent_time with valid parameters on a curve whose start point A equals
\* its end point B ends by raising DegenerateCurve; it returns no number.
C6_CoincidingEndpointsRaise ==
    (Ended /\ ValidCall /\ FiniteEndpoints /\ PointA(curve) = PointB(curve))
        => (Raised /\ err = "DegenerateCurve")

\* C7: evaluating a cycloid whose horizontal chord is zero (x1 = x0) or
\* whose radius is negative (x1 < x0) at an angle other than 0 raises
\* DegenerateCurve; it returns no point.
C7_CycloidOutOfRangeRaises ==
    (/\ pc \in {"plotted", "raised"}
     /\ curve.kind \in {"cycloid_path", "cycloid_func"}
     /\ FiniteEndpoints
     /\ ~FGt(curve.x1, curve.x0)
     /\ (plot # << >> => ~FEq(plot[1].t, F(0))))
        => (Raised /\ err = "DegenerateCurve")

----------------------------------------------------------------------------
(* C8, C9 *)

\* C8: every value descent_time returns is >= 0 and is neither NaN nor
\* infinite, whatever the curve, the range, the step count and the gravity.
C8_ReturnedTimeFiniteNonNegative ==
    Returned => (IsFin(ret[1]) /\ NonNegative(ret[1]))

\* C9: when descent_time returns from a call with n >= 1 steps, gravity >= 0
\* and a real-valued curve between two proper endpoints, each of the n
\* segments was added to the total,
\* and every segment whose average height is zero or whose energy velocity
\* sqrt(2 * g * |y_avg|) is zero was added with the floor velocity 0.001.
C9_EverySegmentContributes ==
    (Returned /\ n_points >= 1 /\ NonNegative(g) /\ FiniteSamples
              /\ ProperChord)
        => /\ Len(steps) = n_points
           /\ \A k \in StepIndices :
                /\ steps[k].added
                /\ (\/ FEq(steps[k].y_avg, F(0))
                    \/ FEq(RefEnergySpeed(steps[k].y_avg), F(0)))
                       => steps[k].v = FLOOR

----------------------------------------------------------------------------
(* C10 *)

ChordKinds == {"straight_line", "parabolic_path", "parabola_func"}

\* C10: for real endpoints A and B and every depth, the line and the
\* parabola (of the derivation and of the scene) evaluated at parameter 0
\* yield A and evaluated at parameter 1 yield B; so does every evaluation at
\* 0 or 1 made while drawing the curve or integrating along it.
C10_ChordCurvesMeetEndpoints ==
    (curve.kind \in ChordKinds /\ FiniteEndpoints)
        => /\ CurveAt(curve, F(0)) = PointA(curve)
           /\ CurveAt(curve, Num(1)) = PointB(curve)
           /\ \A k \in 1..Len(plot) :
                /\ plot[k].t = F(0) => plot[k].p = PointA(curve)
                /\ plot[k].t = Num(1) => plot[k].p = PointB(curve)
           /\ \A k \in StepIndices :
                /\ steps[k].t1 = F(0) => steps[k].p1 = PointA(curve)
                /\ steps[k].t2 = Num(1) => steps[k].p2 = PointB(curve)

\* a parabola with a sag between two different heights was drawn up to
\* parameter 1, where it reached B
C10_Witness ==
    /\ pc = "plotted"
    /\ curve.kind = "parabolic_path"
    /\ FiniteEndpoints
    /\ curve.y0 # curve.y1 /\ curve.x0 # curve.x1
    /\ plot[1].t = Num(1)
    /\ plot[1].p = PointB(curve)
    /\ parabolic_path(F(Scale \div 2), curve) # straight_line(F(Scale \div 2), curve)

----------------------------------------------------------------------------
(* C11 *)

CycloidKinds == {"cycloid_path", "cycloid_func"}

\* the largest distance, per coordinate, at which two points count as the
\* same point up to the rounding of the arithmetic: 0.005
Tolerance == Scale \div 200

Near(P, Q) ==
    /\ IsFinPt(P) /\ IsFinPt(Q)
    /\ Abs(P.x.val - Q.x.val) <= Tolerance
    /\ Abs(P.y.val - Q.y.val) <= Tolerance

\* a cycloid between real endpoints with a horizontal extent
ProperCycloid ==
    curve.kind \in CycloidKinds /\ FiniteEndpoints /\ curve.x0 # curve.x1

----------------------------------------------------------------------------
(* C12 *)

\* parameters strictly between 0 and 1 at which the parabola is compared
\* with the chord: 1/8, 1/4, 1/2, 3/4, 7/8
InnerParams ==
    {F(Scale \div 8), F(Scale \div 4), F(Scale \div 2),
     F(Scale - Scale \div 4), F(Scale - Scale \div 8)}

\* depth*t*(1-t)*|y1-y0|
Sag(t, c, depth) ==
    FMul(FMul(FMul(depth, t), FSub(Num(1), t)), FAbs(FSub(c.y1, c.y0)))

\* the depth a parabola kind is evaluated with
DepthOf(c) == IF c.kind = "parabola_func" THEN Num(SceneDepth) ELSE c.depth

\* the point of the parabola at t lies under the point of the chord at t,
\* lower by the sag, which is positive
SagsBelowChord(t, c, P) ==
    LET Q == straight_line(t, c)
    IN  /\ P.x = Q.x
        /\ FGt(Q.y, P.y)
        /\ Positive(Sag(t, c, DepthOf(c)))
        /\ P.y = FSub(Q.y, Sag(t, c, DepthOf(c)))

ParabolaKinds == {"parabolic_path", "parabola_func"}

\* C12: for a parabola between real endpoints of different heights, with a
\* positive depth, at every parameter t strictly between 0 and 1 (the
\* compared parameters, and those the curve was drawn or integrated at) the
\* point has the x of the chord point at t and a y strictly below it, lower
\* by exactly depth*t*(1-t)*|y1-y0|; the sag is the same at t and at 1 - t.
C12_ParabolaSagsBelowChord ==
    (curve.kind \in ParabolaKinds /\ FiniteEndpoints /\ curve.y0 # curve.y1)
        => /\ \A t \in InnerParams :
                /\ SagsBelowChord(t, curve, CurveAt(curve, t))
                /\ Sag(t, curve, DepthOf(curve))
                     = Sag(FSub(Num(1), t), curve, DepthOf(curve))
           /\ \A k \in 1..Len(plot) :
                (FGt(plot[k].t, F(0)) /\ FGt(Num(1), plot[k].t))
                    => SagsBelowChord(plot[k].t, curve, plot[k].p)
           /\ \A k \in StepIndices :
                (FGt(steps[k].t2, F(0)) /\ FGt(Num(1), steps[k].t2))
                    => SagsBelowChord(steps[k].t2, curve, steps[k].p2)

\* a parabola between two different heights was integrated along in two or
\* more steps, and the end of its first step lies under the chord
C12_Witness ==
    /\ Returned
    /\ curve.kind = "parabolic_path"
    /\ FiniteEndpoints /\ ProperChord
    /\ Len(steps) >= 2
    /\ FGt(steps[1].t2, F(0)) /\ FGt(Num(1), steps[1].t2)
    /\ FGt(straight_line(steps[1].t2, curve).y, steps[1].p2.y)

----------------------------------------------------------------------------
(* C13 *)

\* the scene is the default one: A = (-4, 2), B = (4, -2)
DefaultScenario ==
    /\ PointA(curve) = Pt(Num(-4), Num(2))
    /\ PointB(curve) = Pt(Num(4), Num(-2))

\* C13: in the default scenario (A = (-4, 2), B = (4, -2), g = 9.8, 100
\* steps) the descent times of the line, the parabola of depth 2 and the
\* cycloid over [0, 2.5], as computed for the race, are each finite and
\* positive, and the time of the cycloid is strictly less than the other
\* two.
C13_CycloidFastestInDefaultScenario ==
    (pc = "timed" /\ DefaultScenario)
        => LET s == returned.straight_line
               p == returned.parabolic_path
               c == returned.cycloid_path
           IN  /\ time_s = FMul(s, Stretch)
               /\ time_p = FMul(p, Stretch)
               /\ time_c = FMul(c, Stretch)
               /\ IsFin(s) /\ IsFin(p) /\ IsFin(c)
               /\ Positive(s) /\ Positive(p) /\ Positive(c)
               /\ FGt(s, c)
               /\ FGt(p, c)

----------------------------------------------------------------------------
(* C14 *)

\* the curve function behind a line of the results, and behind the winner
KindOf(name) ==
    CASE name = "Straight" -> "straight_line"
      [] name = "Parabola" -> "parabolic_path"
      [] name = "Cycloid"  -> "cycloid_path"

\* the time descent_time returned for the curve of that name in the scene
PhysicalTime(name) == returned[KindOf(name)]

\* C14: in the scene the program builds (the default endpoints), the curve
\* announced as the fastest has the minimum computed descent time among the
\* compared curves (the three of the race, the two of the quick demo), and
\* the lines of the results are in ascending order of computed time.
C14_WinnerIsMinimumAndAscending ==
    DefaultScenario
        => /\ pc = "shown"
                => /\ \A k \in 1..Len(results) :
                        results[k].fastest
                            => \A j \in 1..Len(results) :
                                 ~FGt(PhysicalTime(results[k].name),
                                      PhysicalTime(results[j].name))
                   /\ \A k \in 1..(Len(results) - 1) :
                        ~FGt(PhysicalTime(results[k].name),
                             PhysicalTime(results[k + 1].name))
           /\ pc = "demo_won"
                => \A other \in {"Straight", "Cycloid"} :
                     ~FGt(PhysicalTime(winner), PhysicalTime(other))

----------------------------------------------------------------------------
(* C15 *)

\* the names of the curves a scene has played, in the order of run_time
Played ==
    IF pc \in {"raced", "shown"} THEN <<"Straight", "Parabola", "Cycloid">>
    ELSE IF pc \in {"demo_raced", "demo_won"} THEN <<"Straight", "Cycloid">>
    ELSE << >>

\* the variable a scene keeps the time of that curve in
Kept(name) ==
    CASE name = "Straight" -> time_s
      [] name = "Parabola" -> time_p
      [] name = "Cycloid"  -> time_c

----------------------------------------------------------------------------
(* C16 *)

\* the calls of descent_time that ended, the last one included
EndedCalls ==
    IF Ended
    THEN Append(log, [t_start |-> t_start, t_end |-> t_end,
                      n_points |-> n_points, g |-> g,
                      ret |-> ret, err |-> err])
    ELSE log

SameInputs(a, b) ==
    /\ a.t_start = b.t_start /\ a.t_end = b.t_end
    /\ a.n_points = b.n_points /\ a.g = b.g

\* C16: any two calls of descent_time on the same curve with the same range,
\* step count and gravity end the same way, with the same returned value,
\* whatever calls were made before or between them.
C16_SameInputsSameResult ==
    \A j \in 1..Len(EndedCalls), k \in 1..Len(EndedCalls) :
        SameInputs(EndedCalls[j], EndedCalls[k])
            => /\ EndedCalls[j].ret = EndedCalls[k].ret
               /\ EndedCalls[j].err = EndedCalls[k].err

\* three calls returned: the first and the third with the same inputs, of
\* two steps or more, and the same positive time, the second with other
\* inputs and another outcome
C16_Witness ==
    /\ Returned
    /\ Len(log) = 2
    /\ n_points >= 2
    /\ SameInputs(log[1], EndedCalls[3])
    /\ ~SameInputs(log[1], log[2])
    /\ log[1].ret = ret
    /\ Positive(ret[1])
    /\ log[2].ret # ret

----------------------------------------------------------------------------
(* C17 *)

\* the factors gravity is multiplied by: 2, 4 and 1/2
GravityFactors == {Num(2), Num(4), F(Scale \div 2)}

\* two times are equal up to the rounding of the arithmetic: they differ by
\* no more than one part in RelativeParts of the larger, or by 0.002
RelativeParts == 50

SameTime(a, b) ==
    /\ IsFin(a) /\ IsFin(b)
    /\ LET larger == IF Abs(a.val) > Abs(b.val) THEN Abs(a.val) ELSE Abs(b.val)
       IN  Abs(a.val - b.val) * RelativeParts <= larger + 2 * RelativeParts

\* the product of a time, however long, and a positive factor: the whole
\* seconds and the rest of the time are multiplied one after the other
TimesFactor(a, b) ==
    IF ~IsFin(a) \/ a.val < 0 THEN FMul(a, b)
    ELSE F((a.val \div Scale) * b.val
             + RoundDiv((a.val % Scale) * b.val, Scale))

\* the call that returned, made again with gravity k*g, returns the time of
\* this call times 1/sqrt(k)
ScalesWithGravity(k) ==
    SameTime(TimesFactor(descent_time(curve, t_start, t_end, n_points,
                                      FMul(k, g)),
                         FSqrt(k)),
             ret[1])

\* no segment of the call has an average height of exactly zero
NoZeroHeight == \A j \in StepIndices : ~FEq(steps[j].y_avg, F(0))

\* a call with the default gravity and one step or more returned, on a
\* curve with real endpoints
ScalingCase ==
    /\ Returned
    /\ n_points >= 1
    /\ g = DefaultGravity
    /\ FiniteEndpoints /\ FiniteSamples

----------------------------------------------------------------------------
(* C18 *)

\* C18: within a call of descent_time the segments are taken strictly in
\* increasing parameter order: the k-th contribution added to the running
\* total is that of segment k-1, which starts at t_start + (k-1)*dt, after
\* the start of the segment before it, and the running total is the sum of
\* the contributions of the segments 0 .. i-1, added in that order.
C18_IncreasingParameterOrder ==
    pc \in {"loop", "done"}
        => /\ Len(steps) = i
           /\ \A k \in StepIndices :
                /\ steps[k].i = k - 1
                /\ steps[k].t1 = FAdd(t_start, FMul(Num(k - 1), dt))
                /\ (k > 1 /\ Positive(dt))
                     => /\ FGt(steps[k].t1, steps[k - 1].t1)
                        /\ steps[k].t1 = steps[k - 1].t2
           /\ total_time = Run(curve, t_start, dt, g, 0, i, F(0))

\* a call of three steps or more along a descending curve returned; each of
\* its first three segments added its own positive contribution
C18_Witness ==
    /\ Returned
    /\ FiniteEndpoints /\ ProperChord
    /\ Len(steps) >= 3
    /\ \A k \in 1..3 : steps[k].added /\ Positive(steps[k].ds)
    /\ FGt(steps[2].t1, steps[1].t1)
    /\ FGt(steps[3].t1, steps[2].t1)
    /\ Positive(ret[1])

----------------------------------------------------------------------------
(* C20 *)

\* the step is one of a call of descent_time: entering it, one iteration of
\* its loop with the two evaluations of the curve function, or its return
StepOfCall ==
    /\ pc \in {"start", "loop"}
    /\ pc' \in {"loop", "done", "raised"}

\* C20: no step of descent_time, and no evaluation of a curve function made
\* for it or for drawing the curve, changes the curve, its endpoints or its
\* shape parameters; a step of descent_time changes nothing but the
\* arguments, the locals and the result of the call: what was drawn and what
\* the scenes and the callers keep stay as they are.
C20_SideEffectFree ==
    [][ /\ curve' = curve
        /\ StepOfCall => /\ plot' = plot
                         /\ sceneVars' = sceneVars
                         /\ callerVars' = callerVars ]_vars

\* a call of two steps or more along a cycloid between two different points
\* returned a positive time, and the curve function evaluated again yields
\* the points it yielded during the call
C20_Witness ==
    /\ Returned
    /\ curve.kind = "cycloid_path"
    /\ FiniteEndpoints /\ ProperChord
    /\ Len(steps) >= 2
    /\ Positive(ret[1])
    /\ \A k \in StepIndices :
         /\ steps[k].p1 = CurveAt(curve, steps[k].t1)
         /\ steps[k].p2 = CurveAt(curve, steps[k].t2)

----------------------------------------------------------------------------
(* C19 *)

\* the time the call in that frame returns when the curve is computed alone
Alone(name) ==
    LET f == frames[name]
    IN  descent_time(SceneCurve(name), f.t_start, f.t_end, f.n_points, f.g)

\* C19: when the descent times of the curves of a comparison are computed
\* side by side, in any order and any interleaving of their integration
\* steps, the running total of every curve is at every moment that of its
\* own segments taken so far, whatever the progress of the other curves, and
\* the time returned for every curve is the time of that curve computed
\* alone.
C19_InterleavedCallsIndependent ==
    pc = "calls"
        => \A name \in DerivationKinds :
             LET f == frames[name]
             IN  /\ f.total_time =
                      Run(SceneCurve(name), f.t_start, f.dt, f.g, 0, f.i, F(0))
                 /\ f.pc = "done" => f.ret = <<Alone(name)>>

\* the three calls of the default scenario, of two steps or more, have all
\* returned: three positive times, no two of them equal
C19_Witness ==
    /\ pc = "calls"
    /\ DefaultScenario
    /\ \A name \in DerivationKinds :
         /\ frames[name].pc = "done"
         /\ frames[name].n_points >= 2
         /\ Positive(frames[name].ret[1])
    /\ frames["straight_line"].ret # frames["parabolic_path"].ret
    /\ frames["straight_line"].ret # frames["cycloid_path"].ret
    /\ frames["parabolic_path"].ret # frames["cycloid_path"].ret

----------------------------------------------------------------------------
(* C21 *)

\* C21: every parabola drawn, the scene's parabola_func like the module's
\* parabolic_path, is evaluated with the depth the curve was configured
\* with: for the same parameter, endpoints and configured depth both yield
\* the point of parabolic_path, and no depth literal takes its place.
C21_ParabolasUseConfiguredDepth ==
    (curve.kind \in ParabolaKinds /\ FiniteEndpoints /\ ProperChord)
        => \A k \in 1..Len(plot) :
             plot[k].p = SagPath(plot[k].t, curve, curve.depth)

----------------------------------------------------------------------------
(* C22 *)

\* the distance of the times two measured calls returned
TimeGap(j, k) == Abs(log[j].ret[1].val - log[k].ret[1].val)

\* the curve is one of the three of the default scenario
DefaultCurve == DefaultScenario /\ curve.depth = DefaultDepth

-----------------------------------------------------------------------------
(* C23 *)

\* the height the particle is released at: that of the first point of the call
ReleaseHeight == CurveAt(curve, t_start).y

\* the speed of a particle that has fallen by drop from rest
DropSpeed(drop) == FSqrt(FMul(FMul(Num(2), g), drop))

\* the same curve, moved up by h
Raised_By(c, h) == [c EXCEPT !.y0 = FAdd(@, h), !.y1 = FAdd(@, h)]

Descends == FGt(curve.y0, curve.y1)

\* C23: in a call with n >= 1 and g > 0 on a curve that descends from A to
\* B, the speed of every segment whose mean height lies below the release
\* height is the speed gained over that drop, no segment is slower than a
\* segment at the release height, and the call returns what it returns for
\* the same curve moved up by one unit.
C23_SpeedFromDropBelowStart ==
    (ValidCall /\ FiniteEndpoints /\ ProperChord /\ Descends /\ FiniteSamples)
        => /\ \A k \in StepIndices :
                FGt(ReleaseHeight, steps[k].y_avg)
                    => steps[k].v = DropSpeed(FSub(ReleaseHeight, steps[k].y_avg))
           /\ \A j \in StepIndices : \A k \in StepIndices :
                steps[j].y_avg = ReleaseHeight => ~FGt(steps[j].v, steps[k].v)
           /\ Returned
                => ret = <<descent_time(Raised_By(curve, Num(1)), t_start, t_end,
                                        n_points, g)>>


-----------------------------------------------------------------------------
(* C24 *)

\* segment k + 1 starts where segment k ends, in parameter and in point
Connected ==
    \A k \in StepIndices :
        k > 1 => /\ steps[k].t1 = steps[k - 1].t2
                 /\ steps[k].p1 = steps[k - 1].p2

\* the first segment starts at t_start, at the point of the curve there
StartsAtRangeStart ==
    steps # << >> => /\ steps[1].t1 = t_start
                     /\ steps[1].p1 = CurveAt(curve, t_start)

\* a and b differ by no more than n roundings of half a unit each
WithinRoundings(a, b, n) ==
    /\ IsFin(a)
    /\ IsFin(b)
    /\ 2 * Abs(a.val - b.val) <= n

-----------------------------------------------------------------------------
(* C25 *)

\* the parameters the curve function was called with so far, in call order:
\* each iteration calls it at t1 and at t2
RECURSIVE EvaluatedUpTo(_)
EvaluatedUpTo(k) ==
    IF k = 0 THEN << >>
    ELSE EvaluatedUpTo(k - 1) \o <<steps[k].t1, steps[k].t2>>

Evaluations == Len(EvaluatedUpTo(Len(steps)))

InLoop == pc = "loop"

\* C25: a call with n >= 1 has run i <= n iterations and 2 * i evaluations
\* of the curve function while it is in its loop; from there its next step is
\* one more iteration while i < n and the return once i = n, so that it
\* returns after exactly n iterations and 2 * n evaluations.
C25_ExactlyNIterations ==
    /\ [](n_points >= 1 /\ (InLoop \/ Returned)
            => /\ i = Len(steps)
               /\ i <= n_points
               /\ Evaluations = 2 * i
               /\ Returned => i = n_points)
    /\ [][(InLoop /\ n_points >= 1)
            => \/ /\ i < n_points
                  /\ InLoop'
                  /\ i' = i + 1
                  /\ Len(steps') = Len(steps) + 1
               \/ /\ i = n_points
                  /\ Returned'
                  /\ steps' = steps]_vars

C25_Witness ==
    /\ Returned
    /\ n_points = MaxN
    /\ i = MaxN
    /\ Len(steps) = MaxN
    /\ Evaluations = 2 * MaxN


-----------------------------------------------------------------------------
(* C26 *)

\* the call is over the whole range the curve is drawn over
WholeRange == <<t_start, t_end>> = t_range(curve)

\* the last sample of a drawing is the one at the end of the range
LastDrawn(k) == plot[k].t = t_range(curve)[2]

-----------------------------------------------------------------------------
(* C27 *)

AtLeast(a, b) == FGt(a, b) \/ FEq(a, b)

\* C27: during a call with n >= 1 and g > 0 on a curve that returns real
\* coordinates, the running total is >= 0 before the first iteration and
\* after every iteration, every increment ds / v is >= 0, and no iteration
\* makes the total smaller.
C27_TotalNeverDecreases ==
    /\ []((n_points >= 1 /\ Positive(g) /\ FiniteSamples
              /\ (InLoop \/ Returned))
            => /\ NonNegative(total_time)
               /\ (steps = << >> => total_time = F(0))
               /\ \A k \in StepIndices :
                    steps[k].added
                        => NonNegative(FDiv(steps[k].ds, steps[k].v)))
    /\ [][(InLoop /\ n_points >= 1 /\ Positive(g) /\ FiniteSamples')
            => AtLeast(total_time', total_time)]_vars

\* three iterations on real points have each made the total larger
C27_Witness ==
    /\ Returned
    /\ Positive(g)
    /\ FiniteSamples
    /\ n_points = MaxN
    /\ \A k \in StepIndices : steps[k].added /\ Positive(steps[k].ds)
    /\ Positive(total_time)
    /\ FGt(total_time, FDiv(steps[1].ds, steps[1].v))


-----------------------------------------------------------------------------
(* C28 *)

\* parameters at which the two cycloid functions are compared: 0, 1/2, 1, 2
\* and theta_max
SampleThetas == {F(0), F(Scale \div 2), Num(1), Num(2), theta_max}

SamePoint(theta) == cycloid_func(theta, curve) = cycloid_path(theta, curve)

\* C28: for every pair of endpoints, the scene's cycloid_func and the
\* module's cycloid_path return the same point at every compared parameter
\* and at every parameter a cycloid was drawn or integrated at, and that
\* point is the one that was drawn or integrated.
C28_SceneCycloidSameAsModuleCycloid ==
    curve.kind \in CycloidKinds
        => /\ scene_theta_max = theta_max
           /\ \A theta \in SampleThetas : SamePoint(theta)
           /\ \A k \in 1..Len(plot) :
                /\ SamePoint(plot[k].t)
                /\ plot[k].p = cycloid_path(plot[k].t, curve)
           /\ \A k \in StepIndices :
                /\ SamePoint(steps[k].t1) /\ SamePoint(steps[k].t2)
                /\ steps[k].p1 = cycloid_func(steps[k].t1, curve)
                /\ steps[k].p2 = cycloid_func(steps[k].t2, curve)

\* the scene's cycloid between two points of different height was drawn at a
\* parameter inside its range, at a real point that is neither A nor B
C28_Witness ==
    /\ pc = "plotted"
    /\ curve.kind = "cycloid_func"
    /\ ProperCycloid
    /\ curve.y0 # curve.y1
    /\ FGt(plot[1].t, F(0))
    /\ FGt(theta_max, plot[1].t)
    /\ IsFinPt(plot[1].p)
    /\ plot[1].p = cycloid_path(plot[1].t, curve)
    /\ ~Near(plot[1].p, PointA(curve))
    /\ ~Near(plot[1].p, PointB(curve))


-----------------------------------------------------------------------------
(* C29 *)

\* the width of the call divides its range without rounding, so that the
\* arithmetic of the parameters is exact
ExactWidth == FMul(Num(n_points), dt) = FSub(t_end, t_start)

\* the locals of the iteration of the call over the reversed range,
\* descent_time(curve, t_end, t_start, n, g), that covers the same
\* sub-interval as iteration k of this call
ReversedSegment(k) ==
    Segment(curve, t_end, FDiv(FSub(t_start, t_end), Num(n_points)), g,
            n_points - k)

SameContribution(s, r) ==
    /\ r.t1 = s.t2 /\ r.t2 = s.t1
    /\ r.p1 = s.p2 /\ r.p2 = s.p1
    /\ r.ds = s.ds
    /\ r.y_avg = s.y_avg
    /\ r.v = s.v
    /\ r.added = s.added

\* C29: for every curve, n >= 1 and g > 0, with a width that is exact, the
\* call over the reversed range visits the same n segments in the opposite
\* order, each with the same length and speed, and returns the same value.
C29_ReversedRangeSameResult ==
    (Returned /\ ValidCall /\ ExactWidth)
        => /\ \A k \in StepIndices : SameContribution(steps[k], ReversedSegment(k))
           /\ ret = <<descent_time(curve, t_end, t_start, n_points, g)>>

\* a call of two steps of different contributions along a real curve between
\* two different heights has returned a positive time
C29_Witness ==
    /\ Returned /\ ValidCall /\ ExactWidth /\ FiniteSamples
    /\ n_points = 2
    /\ curve.y0 # curve.y1 /\ curve.x0 # curve.x1
    /\ FDiv(steps[1].ds, steps[1].v) # FDiv(steps[2].ds, steps[2].v)
    /\ ReversedSegment(1).i = 1
    /\ Positive(ret[1])
    /\ ret[1] = descent_time(curve, t_end, t_start, n_points, g)


-----------------------------------------------------------------------------
(* C30 *)

\* the midpoint of the range of the call
MidPoint == FDiv(FAdd(t_start, t_end), Num(2))

\* the range of the call divides into 2 * h segments without rounding, so
\* that the arithmetic of the parameters is exact
ExactSplit(h) ==
    FMul(Num(2 * h), FDiv(FSub(t_end, t_start), Num(2 * h)))
        = FSub(t_end, t_start)

\* the sum over the whole range in 2 * h steps is the sum over its first half
\* in h steps plus the sum over its second half in h steps
Additive(h) ==
    descent_time(curve, t_start, t_end, 2 * h, g)
        = FAdd(descent_time(curve, t_start, MidPoint, h, g),
               descent_time(curve, MidPoint, t_end, h, g))

\* C30: for every curve, n >= 1 and g > 0, with a range that divides into
\* 2 * n segments exactly, descent_time over the range in 2 * n steps is the
\* sum of descent_time over its two halves in n steps each; a call that has
\* returned after 2 * n steps has returned that sum.
C30_AdditiveOverMidpoint ==
    (Returned /\ ValidCall)
        => /\ \A h \in 1..MaxN : ExactSplit(h) => Additive(h)
           /\ \A h \in 1..MaxN :
                (n_points = 2 * h /\ ExactSplit(h))
                    => ret = <<FAdd(descent_time(curve, t_start, MidPoint, h, g),
                                    descent_time(curve, MidPoint, t_end, h, g))>>

\* a call of two steps along a real curve between two different heights has
\* returned a positive time, the sum of two different positive times of its
\* halves
C30_Witness ==
    /\ Returned /\ ValidCall /\ FiniteSamples
    /\ n_points = 2
    /\ ExactSplit(1) /\ ExactSplit(2)
    /\ curve.y0 # curve.y1 /\ curve.x0 # curve.x1
    /\ Positive(descent_time(curve, t_start, MidPoint, 1, g))
    /\ Positive(descent_time(curve, MidPoint, t_end, 1, g))
    /\ descent_time(curve, t_start, MidPoint, 1, g)
         # descent_time(curve, MidPoint, t_end, 1, g)
    /\ Additive(1) /\ Additive(2)
    /\ ret[1] = descent_time(curve, t_start, t_end, 2, g)

============================================================================
